---- MODULE Spec2Model ----
(***************************************************************************)
(* A model of src/main.py: the tick orchestrator Trader.run, the static    *)
(* band strategy amethyst, the adaptive strategy starfruit, the position   *)
(* limiter, the state codec (jsonpickle) and the module-level Logger.      *)
(*                                                                         *)
(* A Python dict is a sequence of <<key, value>> pairs in insertion order. *)
(* A dict key is tagged with its Python type, because the state codec      *)
(* turns every key into a JSON string: IntKey(5) is 5, StrKey(5) is "5".   *)
(* An exception is a string naming its class; "none" is normal completion. *)
(***************************************************************************)
EXTENDS Integers, Sequences, FiniteSets, TLC

VARIABLES
    pc,            \* where the tick is: idle, loop, sf_*, returned, raised
    state,         \* the TradingState handed to Trader.run
    i,             \* index of the product Trader.run's loop is at
    result,        \* Trader.run's result dict (product -> orders)
    traderData,    \* Trader.run's local traderData: <<>> unbound, <<blob>> bound
    ret,           \* <<>> or <<the triple Trader.run returned>>
    exc,           \* the exception that aborted the tick, or "none"
    orders,        \* starfruit's local orders list
    position,      \* starfruit's local position
    data,          \* starfruit's local StarfruitData
    best,          \* starfruit's locals best_ask and best_bid
    decided,       \* every order appended this tick, with its side and the position it was sized against
    logger_logs,   \* the module-level logger's buffer (lines not yet flushed)
    sink           \* the records Logger.flush handed to the observability sink

vars == <<pc, state, i, result, traderData, ret, exc, orders, position, data,
          best, decided, logger_logs, sink>>

----------------------------------------------------------------------------
(* Program constants *)

position_limit == 20
buy_price == 9998
sell_price == 10002
min_profit == 4
PRICE_AMT == 10
conversions == 0

(* Bounds of the model *)

MaxQty == 2     \* largest resting quantity at a level of the AMETHYSTS book
MaxHist == 3    \* longest price history held by an incoming state blob

----------------------------------------------------------------------------
(* Python built-ins *)

Min(a, b) == IF a <= b THEN a ELSE b

RECURSIVE Sum(_)
Sum(s) == IF s = <<>> THEN 0 ELSE Head(s) + Sum(Tail(s))

IntKey(n) == [t |-> "int", v |-> n]
StrKey(n) == [t |-> "str", v |-> n]

\* str(k) of a dict key: an int becomes its decimal string, a str stays.
Str(k) == StrKey(k.v)

DictKeys(d) == {d[j][1] : j \in 1..Len(d)}
DictHas(d, k) == k \in DictKeys(d)
DictGet(d, k) == LET j == CHOOSE n \in 1..Len(d) : d[n][1] = k IN d[j][2]

\* d[k] = v: replaces the value in place, or appends a new item.
DictSet(d, k, v) ==
    IF DictHas(d, k)
    THEN [j \in 1..Len(d) |-> IF d[j][1] = k THEN <<k, v>> ELSE d[j]]
    ELSE Append(d, <<k, v>>)

\* d.pop(k) for a key that is present.
DictPop(d, k) == SelectSeq(d, LAMBDA it : it[1] # k)

\* dict.get(k, default)
DictGetDefault(d, k, default) == IF DictHas(d, k) THEN DictGet(d, k) ELSE default

----------------------------------------------------------------------------
(* Position Limiter *)

max_buy_amt(pos, limit, wanted_amt) == Min(limit - pos, wanted_amt)

\* A limiter that does not clamp.
max_sell_amt_unclamped(pos, limit, wanted_amt) == wanted_amt

max_sell_amt(pos, limit, wanted_amt) == Min(pos + limit, wanted_amt)

Order(symbol, price, quantity) ==
    [symbol |-> symbol, price |-> price, quantity |-> quantity]

----------------------------------------------------------------------------
(* Exceptions and list access *)

\* A guard that lets an empty side through.
NonEmptyAssumed(d) == TRUE

\* len(d) != 0, the guard in front of list(d.items())[0]
NonEmpty(d) == Len(d) # 0

\* list(d.items())[0]: the first item in insertion order; IndexError on an empty dict.
FirstItemExc(d) == IF Len(d) = 0 THEN "IndexError" ELSE "none"
FirstItem(d) == d[1]

\* One decision of a strategy: the order appended, its side, the rule that
\* made it (band, long_exit, short_exit, entry) and the position its size was
\* clamped against.
Decision(side, rule, order, pos) ==
    [side |-> side, rule |-> rule, order |-> order, position |-> pos]

\* One logger.print call.
Line(verb, amt, product, price) ==
    [verb |-> verb, amt |-> amt, product |-> product, price |-> price]

----------------------------------------------------------------------------
(* Static-band strategy *)

\* state.position.get(product, 0)
PositionOf(st, product) == DictGetDefault(st.position, product, 0)

\* The outcome of a strategy call or of a block of one.
Frame(os, ds, ls, e) == [orders |-> os, decided |-> ds, prints |-> ls, exc |-> e]

\* lines 159-169: the buy side of amethyst
amethyst_buy(st, fr) ==
    LET sell_orders == DictGet(st.order_depths, "AMETHYSTS").sell_orders IN
    IF ~NonEmpty(sell_orders) THEN fr
    ELSE IF FirstItemExc(sell_orders) # "none"
    THEN [fr EXCEPT !.exc = FirstItemExc(sell_orders)]
    ELSE
        LET best_ask == FirstItem(sell_orders)[1]
            best_ask_amount == -FirstItem(sell_orders)[2]
            pos == PositionOf(st, "AMETHYSTS")
            amt == max_buy_amt(pos, position_limit, best_ask_amount)
            o == Order("AMETHYSTS", best_ask, amt)
        IN  IF best_ask <= buy_price
            THEN Frame(Append(fr.orders, o),
                       Append(fr.decided, Decision("buy", "band", o, pos)),
                       Append(fr.prints, Line("Buying", amt, "AMETHYSTS", best_ask)),
                       "none")
            ELSE fr

\* lines 171-180: the sell side of amethyst
amethyst_sell(st, fr) ==
    LET buy_orders == DictGet(st.order_depths, "AMETHYSTS").buy_orders IN
    IF fr.exc # "none" \/ ~NonEmpty(buy_orders) THEN fr
    ELSE IF FirstItemExc(buy_orders) # "none"
    THEN [fr EXCEPT !.exc = FirstItemExc(buy_orders)]
    ELSE
        LET best_bid == FirstItem(buy_orders)[1]
            best_bid_amount == FirstItem(buy_orders)[2]
            pos == PositionOf(st, "AMETHYSTS")
            amt == max_sell_amt(pos, position_limit, best_bid_amount)
            o == Order("AMETHYSTS", best_bid, -amt)
        IN  IF best_bid >= sell_price
            THEN Frame(Append(fr.orders, o),
                       Append(fr.decided, Decision("sell", "band", o, pos)),
                       Append(fr.prints, Line("Selling", amt, "AMETHYSTS", best_bid)),
                       "none")
            ELSE fr

\* lines 152-182
amethyst(st) == amethyst_sell(st, amethyst_buy(st, Frame(<<>>, <<>>, <<>>, "none")))

----------------------------------------------------------------------------
(* State codec and StarfruitData *)

\* StarfruitData(): lines 196-200
StarfruitData(bids, asks, long, short) ==
    [last_bid_prices |-> bids, last_ask_prices |-> asks,
     long_at |-> long, short_at |-> short]

EmptyStarfruitData == StarfruitData(<<>>, <<>>, <<>>, <<>>)

\* jsonpickle flattens a dict item by item into a JSON object, whose keys are
\* strings: data[str(k)] = v, a later item replacing an earlier one of the same
\* string.
RECURSIVE EncodeDict(_, _)
EncodeDict(d, acc) ==
    IF d = <<>> THEN acc
    ELSE EncodeDict(Tail(d), DictSet(acc, Str(Head(d)[1]), Head(d)[2]))

\* jsonpickle.encode(data): the blob is <<the JSON object>>; "" is <<>>.
Encode(d) ==
    <<[last_bid_prices |-> d.last_bid_prices,
       last_ask_prices |-> d.last_ask_prices,
       long_at |-> EncodeDict(d.long_at, <<>>),
       short_at |-> EncodeDict(d.short_at, <<>>)]>>

\* jsonpickle.decode(blob): the object's attributes are the JSON object's
\* members; the keys of a decoded dict stay the JSON strings.
Decode(blob) == blob[1]

\* lines 233-235
LoadData(trader_data) ==
    IF trader_data # <<>> THEN Decode(trader_data) ELSE EmptyStarfruitData

\* StarfruitData.update_last_prices, lines 205-216. It reads self.last_prices,
\* an attribute StarfruitData does not set.
update_last_prices_exc(d) ==
    IF "last_prices" \notin DOMAIN d THEN "AttributeError" ELSE "none"

update_last_prices(d, ask, bid) ==
    LET kept == IF Len(d.last_prices) > PRICE_AMT
                THEN Tail(d.last_prices) ELSE d.last_prices
    IN  [d EXCEPT !.last_bid_prices = Append(kept, bid),
                  !.last_ask_prices = Append(kept, ask)]

----------------------------------------------------------------------------
(* Sorting, as list.sort does it *)

RECURSIVE Digits(_)
Digits(n) == IF n < 10 THEN <<n>> ELSE Append(Digits(n \div 10), n % 10)

RECURSIVE LexLess(_, _)
LexLess(a, b) ==
    IF a = <<>> THEN b # <<>>
    ELSE IF b = <<>> THEN FALSE
    ELSE IF Head(a) # Head(b) THEN Head(a) < Head(b)
    ELSE LexLess(Tail(a), Tail(b))

\* a < b on dict keys: ints by value, strings lexicographically.
KeyLess(a, b) ==
    IF a.t = "int" THEN a.v < b.v ELSE LexLess(Digits(a.v), Digits(b.v))

\* Comparing an int with a str raises TypeError.
SortKeysExc(items) ==
    IF \E m, n \in 1..Len(items) : items[m][1].t # items[n][1].t
    THEN "TypeError" ELSE "none"

\* Whether an item keyed a goes before one keyed b: the keys of an order book
\* are ints, those of a ledger are tagged keys.
BookBefore(a, b, reverse) == IF reverse THEN a > b ELSE a < b
LedgerBefore(a, b, reverse) == IF reverse THEN KeyLess(b, a) ELSE KeyLess(a, b)

RECURSIVE InsertBook(_, _, _)
InsertBook(sorted, it, reverse) ==
    IF sorted = <<>> THEN <<it>>
    ELSE IF BookBefore(it[1], Head(sorted)[1], reverse) THEN <<it>> \o sorted
    ELSE <<Head(sorted)>> \o InsertBook(Tail(sorted), it, reverse)

\* items.sort(key=lambda x: x[0], reverse=reverse) on the items of an order book side
RECURSIVE SortBook(_, _)
SortBook(items, reverse) ==
    IF items = <<>> THEN <<>>
    ELSE InsertBook(SortBook(Tail(items), reverse), Head(items), reverse)

RECURSIVE InsertLedger(_, _, _)
InsertLedger(sorted, it, reverse) ==
    IF sorted = <<>> THEN <<it>>
    ELSE IF LedgerBefore(it[1], Head(sorted)[1], reverse) THEN <<it>> \o sorted
    ELSE <<Head(sorted)>> \o InsertLedger(Tail(sorted), it, reverse)

\* items.sort(key=lambda x: x[0], reverse=reverse) on the items of a ledger
RECURSIVE SortLedger(_, _)
SortLedger(items, reverse) ==
    IF items = <<>> THEN <<>>
    ELSE InsertLedger(SortLedger(Tail(items), reverse), Head(items), reverse)

----------------------------------------------------------------------------
(* Adaptive strategy: the blocks of starfruit. A block takes and returns the  *)
(* function's locals: orders, position, data, and what it decided, printed    *)
(* and raised.                                                                *)

Locals(os, pos, d, ds, ls, e) ==
    [orders |-> os, position |-> pos, data |-> d, decided |-> ds,
     prints |-> ls, exc |-> e]

Raise(fr, e) == [fr EXCEPT !.exc = e]

\* An emitted order that leaves the local position as it was read at the start
\* of the tick.
Emit_stale(fr, side, rule, verb, price, amt) ==
    LET o == Order("STARFRUIT", price, IF side = "buy" THEN amt ELSE -amt) IN
    [fr EXCEPT !.orders = Append(@, o),
               !.decided = Append(@, Decision(side, rule, o, fr.position)),
               !.prints = Append(@, Line(verb, amt, "STARFRUIT", price))]

\* One emitted order of starfruit: logged, appended, and the local position adjusted.
Emit(fr, side, rule, verb, price, amt) ==
    LET o == Order("STARFRUIT", price, IF side = "buy" THEN amt ELSE -amt) IN
    [fr EXCEPT !.orders = Append(@, o),
               !.decided = Append(@, Decision(side, rule, o, fr.position)),
               !.prints = Append(@, Line(verb, amt, "STARFRUIT", price)),
               !.position = IF side = "buy" THEN @ + amt ELSE @ - amt]

\* The long exit loop with its ledger lookups keyed by the lot at the head of
\* long_at (long_at[0][0]) where the source has data.long_at[0] and
\* data.long_at[asks[0][0]]: it goes on to the next ask level.
RECURSIVE long_loop_by_lot(_, _, _)
long_loop_by_lot(asks, long_at, fr) ==
    IF ~(Len(asks) > 0 /\ Len(long_at) > 0) THEN fr
    ELSE IF ~(asks[1][1] >= long_at[1][1].v + min_profit) THEN fr
    ELSE
        LET amt_sold == max_sell_amt(fr.position, position_limit, asks[1][2])
            fr1 == Emit(fr, "sell", "long_exit", "Selling", asks[1][1], amt_sold)
            lot_key == long_at[1][1]
            ask_done == amt_sold = asks[1][2]
            fr2 == IF ask_done
                   THEN [fr1 EXCEPT !.data.long_at =
                            DictSet(@, lot_key, DictGet(@, lot_key) - asks[1][2])]
                   ELSE fr1
            asks2 == IF ask_done THEN Tail(asks) ELSE asks
            lot_done == amt_sold = long_at[1][2]
            fr3 == IF lot_done
                   THEN [fr2 EXCEPT !.data.long_at = DictPop(@, lot_key)]
                   ELSE fr2
            long3 == IF lot_done THEN Tail(long_at) ELSE long_at
        IN  IF fr3.position = -position_limit \/ ~ask_done THEN fr3
            ELSE long_loop_by_lot(asks2, long3, fr3)

\* lines 250-264: the while loop of the long exit
RECURSIVE long_loop(_, _, _)
long_loop(asks, long_at, fr) ==
    IF ~(Len(asks) > 0 /\ Len(long_at) > 0) THEN fr
    ELSE IF ~DictHas(fr.data.long_at, IntKey(0)) THEN Raise(fr, "KeyError")
    ELSE IF ~(asks[1][1] >= DictGet(fr.data.long_at, IntKey(0)) + min_profit) THEN fr
    ELSE
        LET amt_sold == max_sell_amt(fr.position, position_limit, asks[1][2])
            fr1 == Emit(fr, "sell", "long_exit", "Selling", asks[1][1], amt_sold)
            ask_key == IntKey(asks[1][1])
            ask_done == amt_sold = asks[1][2]
            ask_exc == ask_done /\ ~DictHas(fr1.data.long_at, ask_key)
            fr2 == IF ask_done /\ ~ask_exc
                   THEN [fr1 EXCEPT !.data.long_at =
                            DictSet(@, ask_key, DictGet(@, ask_key) - asks[1][2])]
                   ELSE fr1
            asks2 == IF ask_done THEN Tail(asks) ELSE asks
            lot_done == amt_sold = long_at[1][2]
            lot_exc == lot_done /\ ~DictHas(fr2.data.long_at, long_at[1][1])
            fr3 == IF lot_done /\ ~lot_exc
                   THEN [fr2 EXCEPT !.data.long_at = DictPop(@, long_at[1][1])]
                   ELSE fr2
            long3 == IF lot_done THEN Tail(long_at) ELSE long_at
        IN  IF ask_exc THEN Raise(fr1, "KeyError")
            ELSE IF lot_exc THEN Raise(fr2, "KeyError")
            ELSE IF fr3.position = -position_limit THEN fr3
            ELSE long_loop(asks2, long3, fr3)

\* lines 244-264
long_exit(st, fr) ==
    LET order_depth == DictGet(st.order_depths, "STARFRUIT") IN
    IF ~(Len(fr.data.long_at) > 0) THEN fr
    ELSE IF SortKeysExc(fr.data.long_at) # "none"
    THEN Raise(fr, SortKeysExc(fr.data.long_at))
    ELSE long_loop(SortBook(order_depth.sell_orders, TRUE),
                   SortLedger(fr.data.long_at, FALSE), fr)

\* lines 273-287: the while loop of the short exit
RECURSIVE short_loop(_, _, _)
short_loop(bids, short_at, fr) ==
    IF ~(Len(bids) > 0 /\ Len(short_at) > 0) THEN fr
    ELSE IF ~DictHas(fr.data.short_at, IntKey(0)) THEN Raise(fr, "KeyError")
    ELSE IF ~(bids[1][1] <= DictGet(fr.data.short_at, IntKey(0)) - min_profit) THEN fr
    ELSE
        LET amt_buy == max_buy_amt(fr.position, position_limit, bids[1][2])
            fr1 == Emit(fr, "buy", "short_exit", "Buying", bids[1][1], amt_buy)
            bid_key == IntKey(bids[1][1])
            bid_done == amt_buy = bids[1][2]
            bid_exc == bid_done /\ ~DictHas(fr1.data.short_at, bid_key)
            fr2 == IF bid_done /\ ~bid_exc
                   THEN [fr1 EXCEPT !.data.short_at =
                            DictSet(@, bid_key, DictGet(@, bid_key) - bids[1][2])]
                   ELSE fr1
            bids2 == IF bid_done THEN Tail(bids) ELSE bids
            lot_done == amt_buy = short_at[1][2]
            lot_exc == lot_done /\ ~DictHas(fr2.data.short_at, short_at[1][1])
            fr3 == IF lot_done /\ ~lot_exc
                   THEN [fr2 EXCEPT !.data.short_at = DictPop(@, short_at[1][1])]
                   ELSE fr2
            short3 == IF lot_done THEN Tail(short_at) ELSE short_at
        IN  IF bid_exc THEN Raise(fr1, "KeyError")
            ELSE IF lot_exc THEN Raise(fr2, "KeyError")
            ELSE IF fr3.position = position_limit THEN fr3
            ELSE short_loop(bids2, short3, fr3)

\* lines 267-287; the list short_at is built from data.long_at (line 270)
short_exit(st, fr) ==
    LET order_depth == DictGet(st.order_depths, "STARFRUIT") IN
    IF ~(Len(fr.data.short_at) > 0) THEN fr
    ELSE IF SortKeysExc(fr.data.long_at) # "none"
    THEN Raise(fr, SortKeysExc(fr.data.long_at))
    ELSE short_loop(SortBook(order_depth.buy_orders, FALSE),
                    SortLedger(fr.data.long_at, TRUE), fr)

\* avg > price and avg < price for avg = sum(prices) / len(prices), len > 0
AvgAbove(prices, price) == Sum(prices) > price * Len(prices)
AvgBelow(prices, price) == Sum(prices) < price * Len(prices)

\* lines 289-296: sized by max_sell_amt(position, position_limit, best_ask)
entry_sell(fr, best_ask) ==
    IF Len(fr.data.last_ask_prices) = 0 THEN Raise(fr, "ZeroDivisionError")
    ELSE IF AvgAbove(fr.data.last_ask_prices, best_ask)
    THEN LET amt_sell == max_sell_amt(fr.position, position_limit, best_ask)
             fr1 == Emit(fr, "sell", "entry", "Selling", best_ask, amt_sell)
         IN  [fr1 EXCEPT !.data.short_at = DictSet(@, IntKey(best_ask), amt_sell)]
    ELSE fr

\* lines 298-305: sized by max_buy_amt(position, position_limit, best_bid)
entry_buy(fr, best_bid) ==
    IF Len(fr.data.last_bid_prices) = 0 THEN Raise(fr, "ZeroDivisionError")
    ELSE IF AvgBelow(fr.data.last_bid_prices, best_bid)
    THEN LET amt_buy == max_buy_amt(fr.position, position_limit, best_bid)
             fr1 == Emit(fr, "buy", "entry", "Buying", best_bid, amt_buy)
         IN  [fr1 EXCEPT !.data.long_at = DictSet(@, IntKey(best_bid), amt_buy)]
    ELSE fr

----------------------------------------------------------------------------
(* The snapshots the host hands to Trader.run *)

\* A side of an order book: at most two levels at distinct prices, in any
\* insertion order.
Sides(prices, qtys) ==
    {<<>>}
    \cup {<<<<p, q>>>> : p \in prices, q \in qtys}
    \cup {<<<<p1, q1>>, <<p2, q2>>>> :
            <<p1, q1, p2, q2>> \in {x \in prices \X qtys \X prices \X qtys : x[1] # x[3]}}

\* A side with at most one level.
ThinSides(prices, qtys) == {sd \in Sides(prices, qtys) : Len(sd) <= 1}

Depth(buys, sells) == [buy_orders |-> buys, sell_orders |-> sells]

\* In the raw feed bid quantities are positive and ask quantities negative.
AmethystAskPrices == {buy_price, buy_price + 1}
AmethystBidPrices == {sell_price - 1, sell_price}
AmethystDepths ==
    {Depth(b, a) : b \in Sides(AmethystBidPrices, 1..MaxQty),
                   a \in Sides(AmethystAskPrices, {-q : q \in 1..MaxQty})}
ThinAmethystDepths ==
    {Depth(b, a) : b \in ThinSides(AmethystBidPrices, {1}),
                   a \in ThinSides(AmethystAskPrices, {-1})}

\* Book prices of STARFRUIT, and lot prices at and within min_profit of them.
StarfruitPrices == {1 + min_profit, 2 + min_profit}
LotPrices == {1, 1 + min_profit, 6 + min_profit}
StarfruitDepths ==
    {Depth(b, a) : b \in Sides(StarfruitPrices, {1}),
                   a \in Sides(StarfruitPrices, {-1})}
ThinStarfruitDepths ==
    {Depth(b, a) : b \in ThinSides(StarfruitPrices, {1}),
                   a \in ThinSides(StarfruitPrices, {-1})}

\* The positions the host reports: at and next to the limits, and flat.
Positions ==
    {-position_limit, 1 - position_limit, 0, position_limit - 1, position_limit}

\* state.position: the product may be missing from the dict.
PositionDicts(product) == {<<>>} \cup {<<<<product, p>>>> : p \in Positions}

\* Price histories of the two lists of a StarfruitData, of equal length.
Histories ==
    UNION {[1..n -> StarfruitPrices] \X [1..n -> StarfruitPrices] : n \in 0..MaxHist}

\* Lot prices that lie min_profit or more below the highest book price, and
\* min_profit or more above the lowest one.
LowLotPrices == {1, 2}
HighLotPrices == {6 + min_profit, 7 + min_profit}

\* Ledgers as a strategy builds them, keyed by int price: no lot, one lot, two
\* lots in one ledger in either insertion order, or lots in both ledgers.
Lot(p) == <<<<IntKey(p), 1>>>>
Ledgers ==
    {<<<<>>, <<>>>>}
    \cup {<<Lot(p), <<>>>> : p \in LotPrices}
    \cup {<<<<>>, Lot(p)>> : p \in LotPrices}
    \cup {<<Lot(p) \o Lot(q), <<>>>> : <<p, q>> \in {x \in LowLotPrices \X LowLotPrices : x[1] # x[2]}}
    \cup {<<<<>>, Lot(p) \o Lot(q)>> : <<p, q>> \in {x \in HighLotPrices \X HighLotPrices : x[1] # x[2]}}
    \cup {<<Lot(1), Lot(6 + min_profit)>>}

\* The state strings: "" and the encodings of StarfruitData objects, those
\* with more than one lot over the histories of at most one price.
Blobs ==
    {<<>>} \cup {Encode(StarfruitData(x[1][1], x[1][2], x[2][1], x[2][2])) :
                    x \in {y \in Histories \X Ledgers :
                              Len(y[2][1]) + Len(y[2][2]) <= 1 \/ Len(y[1][1]) <= 1}}
ThinBlobs ==
    {<<>>} \cup {Encode(StarfruitData(h[1], h[2], <<>>, <<>>)) :
                    h \in {x \in Histories : Len(x[1]) = 1}}

TradingState(depths, pos, blob) ==
    [order_depths |-> depths, position |-> pos, traderData |-> blob]

Snapshots ==
    \* no product, or one the trader has no strategy for
    {TradingState(<<>>, <<>>, <<>>),
     TradingState(<<<<"ORCHIDS", Depth(<<>>, <<>>)>>>>, <<>>, <<>>)}
    \* AMETHYSTS alone
    \cup {TradingState(<<<<"AMETHYSTS", d>>>>, p, <<>>) :
            d \in AmethystDepths, p \in PositionDicts("AMETHYSTS")}
    \* STARFRUIT alone
    \cup {TradingState(<<<<"STARFRUIT", d>>>>, p, b) :
            d \in StarfruitDepths, p \in PositionDicts("STARFRUIT"), b \in Blobs}
    \* both, in either order
    \cup {TradingState(<<<<"AMETHYSTS", da>>, <<"STARFRUIT", ds>>>>, <<>>, b) :
            da \in ThinAmethystDepths, ds \in ThinStarfruitDepths, b \in ThinBlobs}
    \cup {TradingState(<<<<"STARFRUIT", ds>>, <<"AMETHYSTS", da>>>>, <<>>, b) :
            da \in ThinAmethystDepths, ds \in ThinStarfruitDepths, b \in ThinBlobs}

----------------------------------------------------------------------------
(* The tick *)

NoData == EmptyStarfruitData
NoBest == [ask |-> 0, bid |-> 0]

Init ==
    /\ pc = "idle"
    /\ state = TradingState(<<>>, <<>>, <<>>)
    /\ i = 1
    /\ result = <<>>
    /\ traderData = <<>>
    /\ ret = <<>>
    /\ exc = "none"
    /\ orders = <<>>
    /\ position = 0
    /\ data = NoData
    /\ best = NoBest
    /\ decided = <<>>
    /\ logger_logs = <<>>
    /\ sink = <<>>

Products == [j \in 1..Len(state.order_depths) |-> state.order_depths[j][1]]
InLoop == pc = "loop" /\ i <= Len(state.order_depths)

\* The host calls Trader.run with a snapshot, for the first time since the
\* module was loaded.
HostTick ==
    /\ pc = "idle"
    /\ \E s \in Snapshots : state' = s
    /\ pc' = "loop"
    /\ i' = 1
    /\ result' = <<>>
    /\ traderData' = <<>>
    /\ ret' = <<>>
    /\ exc' = "none"
    /\ orders' = <<>>
    /\ position' = 0
    /\ data' = NoData
    /\ best' = NoBest
    /\ decided' = <<>>
    /\ UNCHANGED <<logger_logs, sink>>

\* lines 100-101: result[product] = amethyst(state)
RunAmethyst ==
    /\ InLoop
    /\ Products[i] = "AMETHYSTS"
    /\ LET fr == amethyst(state) IN
        /\ decided' = decided \o fr.decided
        /\ logger_logs' = logger_logs \o fr.prints
        /\ exc' = fr.exc
        /\ IF fr.exc = "none"
           THEN /\ result' = DictSet(result, "AMETHYSTS", fr.orders)
                /\ i' = i + 1
                /\ pc' = "loop"
           ELSE /\ pc' = "raised"
                /\ UNCHANGED <<result, i>>
    /\ UNCHANGED <<state, traderData, ret, orders, position, data, best, sink>>

\* lines 102-103 and 228-235: starfruit is entered and loads its state
RunStarfruit ==
    /\ InLoop
    /\ Products[i] = "STARFRUIT"
    /\ orders' = <<>>
    /\ position' = PositionOf(state, "STARFRUIT")
    /\ data' = LoadData(state.traderData)
    /\ pc' = "sf_best"
    /\ UNCHANGED <<state, i, result, traderData, ret, exc, best, decided,
                   logger_logs, sink>>

\* lines 98-103: a product with no strategy is passed over
RunSkip ==
    /\ InLoop
    /\ Products[i] \notin {"AMETHYSTS", "STARFRUIT"}
    /\ i' = i + 1
    /\ UNCHANGED <<pc, state, result, traderData, ret, exc, orders, position,
                   data, best, decided, logger_logs, sink>>

\* starfruit's locals as a block takes them
CurLocals == Locals(orders, position, data, <<>>, <<>>, "none")

\* A block's outcome written back: what it decided and printed is appended, an
\* exception aborts the tick (nothing in Trader.run or starfruit catches one).
Apply(fr, next_pc) ==
    /\ orders' = fr.orders
    /\ position' = fr.position
    /\ data' = fr.data
    /\ decided' = decided \o fr.decided
    /\ logger_logs' = logger_logs \o fr.prints
    /\ exc' = fr.exc
    /\ pc' = IF fr.exc = "none" THEN next_pc ELSE "raised"

\* lines 240-241: best_ask and best_bid are the first items of the two sides
SfBest ==
    /\ pc = "sf_best"
    /\ LET order_depth == DictGet(state.order_depths, "STARFRUIT")
           e == IF FirstItemExc(order_depth.sell_orders) # "none"
                THEN FirstItemExc(order_depth.sell_orders)
                ELSE FirstItemExc(order_depth.buy_orders)
       IN  /\ exc' = e
           /\ IF e = "none"
              THEN /\ best' = [ask |-> FirstItem(order_depth.sell_orders)[1],
                               bid |-> FirstItem(order_depth.buy_orders)[1]]
                   /\ pc' = "sf_long"
              ELSE /\ best' = best
                   /\ pc' = "raised"
    /\ UNCHANGED <<state, i, result, traderData, ret, orders, position, data,
                   decided, logger_logs, sink>>

\* lines 244-264
SfLongExit ==
    /\ pc = "sf_long"
    /\ Apply(long_exit(state, CurLocals), "sf_short")
    /\ UNCHANGED <<state, i, result, traderData, ret, best, sink>>

\* lines 267-287
SfShortExit ==
    /\ pc = "sf_short"
    /\ Apply(short_exit(state, CurLocals), "sf_sell")
    /\ UNCHANGED <<state, i, result, traderData, ret, best, sink>>

\* lines 289-296
SfEntrySell ==
    /\ pc = "sf_sell"
    /\ Apply(entry_sell(CurLocals, best.ask), "sf_buy")
    /\ UNCHANGED <<state, i, result, traderData, ret, best, sink>>

\* lines 298-305
SfEntryBuy ==
    /\ pc = "sf_buy"
    /\ Apply(entry_buy(CurLocals, best.bid), "sf_update")
    /\ UNCHANGED <<state, i, result, traderData, ret, best, sink>>

\* lines 307-309 and 103: the history is updated, the state encoded, and
\* Trader.run binds result[product] and traderData
SfUpdate ==
    /\ pc = "sf_update"
    /\ exc' = update_last_prices_exc(data)
    /\ IF update_last_prices_exc(data) = "none"
       THEN /\ data' = update_last_prices(data, best.ask, best.bid)
            /\ result' = DictSet(result, "STARFRUIT", orders)
            /\ traderData' = <<Encode(data')>>
            /\ i' = i + 1
            /\ pc' = "loop"
       ELSE /\ pc' = "raised"
            /\ UNCHANGED <<data, result, traderData, i>>
    /\ UNCHANGED <<state, ret, orders, position, best, decided, logger_logs, sink>>

\* Logger.flush, lines 14-23: the record handed to the sink
FlushRecord(res, conv, trader_data, logs) ==
    [orders |-> res, conversions |-> conv, trader_data |-> trader_data, logs |-> logs]

\* lines 105-107: traderData is bound only by a call of starfruit
RunFinish ==
    /\ pc = "loop"
    /\ i > Len(state.order_depths)
    /\ IF traderData = <<>>
       THEN /\ exc' = "UnboundLocalError"
            /\ pc' = "raised"
            /\ UNCHANGED <<ret, logger_logs, sink>>
       ELSE /\ sink' = Append(sink, FlushRecord(result, conversions, traderData[1], logger_logs))
            /\ logger_logs' = <<>>
            /\ ret' = <<[orders |-> result, conversions |-> conversions,
                         traderData |-> traderData[1]]>>
            /\ pc' = "returned"
            /\ exc' = "none"
    /\ UNCHANGED <<state, i, result, traderData, orders, position, data, best, decided>>

Next ==
    \/ HostTick
    \/ RunAmethyst
    \/ RunStarfruit
    \/ RunSkip
    \/ SfBest
    \/ SfLongExit
    \/ SfShortExit
    \/ SfEntrySell
    \/ SfEntryBuy
    \/ SfUpdate
    \/ RunFinish

Spec == Init /\ [][Next]_vars

----------------------------------------------------------------------------
(* Vocabulary of the claims *)

HasProduct(p) == DictHas(state.order_depths, p)
DepthOf(p) == DictGet(state.order_depths, p)
IndexOf(p) == CHOOSE j \in 1..Len(Products) : Products[j] = p

\* The strategy of product p raised, or has returned to Trader.run.
Raised(p) == HasProduct(p) /\ pc = "raised" /\ IndexOf(p) = i
Done(p) == HasProduct(p) /\ pc # "idle" /\ (IndexOf(p) < i \/ Raised(p))

TickOver == pc \in {"raised", "returned"}

PricesOf(side) == {side[j][1] : j \in 1..Len(side)}
LowestPrice(side) == CHOOSE p \in PricesOf(side) : \A q \in PricesOf(side) : p <= q
HighestPrice(side) == CHOOSE p \in PricesOf(side) : \A q \in PricesOf(side) : p >= q
QtyAt(side, p) == DictGet(side, p)

DecidedBy(rules) == SelectSeq(decided, LAMBDA dc : dc.rule \in rules)
DecidedFor(p) == SelectSeq(decided, LAMBDA dc : dc.order.symbol = p)

\* The state the tick started from, and the ledger prices of a blob or data.
Loaded == LoadData(state.traderData)
LotQty(ledger, p) ==
    IF \E j \in 1..Len(ledger) : ledger[j][1].v = p
    THEN LET j == CHOOSE n \in 1..Len(ledger) : ledger[n][1].v = p IN <<ledger[j][2]>>
    ELSE <<>>

----------------------------------------------------------------------------
(* C1 *)

\* C1: every order a strategy appends keeps position + quantity within
\* [-position_limit, position_limit], the position being the one the order was
\* sized against (tick-start for amethyst, locally adjusted for starfruit).
C1_OrdersWithinLimit ==
    \A k \in 1..Len(decided) :
        /\ decided[k].position + decided[k].order.quantity >= -position_limit
        /\ decided[k].position + decided[k].order.quantity <= position_limit

\* starfruit has sold and then bought, and the buy was cut down to the room
\* left under the limit.
C1_Witness ==
    /\ Len(decided) = 2
    /\ decided[1].order.symbol = "STARFRUIT" /\ decided[1].side = "sell"
    /\ decided[2].order.symbol = "STARFRUIT" /\ decided[2].side = "buy"
    /\ decided[2].position = decided[1].position + decided[1].order.quantity
    /\ decided[2].order.quantity > 0
    /\ decided[2].order.quantity < best.bid
    /\ decided[2].position + decided[2].order.quantity = position_limit

----------------------------------------------------------------------------
(* C2 *)

StaticBandBuy(depth, pos) ==
    IF depth.sell_orders # <<>> /\ LowestPrice(depth.sell_orders) <= buy_price
    THEN LET a == LowestPrice(depth.sell_orders)
             q == -QtyAt(depth.sell_orders, a)
         IN  <<Order("AMETHYSTS", a, Min(q, position_limit - pos))>>
    ELSE <<>>

StaticBandSell(depth, pos) ==
    IF depth.buy_orders # <<>> /\ HighestPrice(depth.buy_orders) >= sell_price
    THEN LET b == HighestPrice(depth.buy_orders)
             qb == QtyAt(depth.buy_orders, b)
         IN  <<Order("AMETHYSTS", b, -Min(qb, pos + position_limit))>>
    ELSE <<>>

\* C2: the static-band output is the buy at the best (lowest) ask when it is
\* <= buy_price, sized min(q, 20 - position), followed by the sell at the best
\* (highest) bid when it is >= sell_price, sized min(qb, position + 20), both
\* against the tick-start position; nothing when neither crosses.
C2_StaticBandOutput ==
    Done("AMETHYSTS") =>
        /\ ~Raised("AMETHYSTS")
        /\ DictHas(result, "AMETHYSTS")
        /\ DictGet(result, "AMETHYSTS") =
              StaticBandBuy(DepthOf("AMETHYSTS"), PositionOf(state, "AMETHYSTS"))
              \o StaticBandSell(DepthOf("AMETHYSTS"), PositionOf(state, "AMETHYSTS"))

----------------------------------------------------------------------------
(* C3 *)

\* C3: no order with a clamped amount <= 0 is emitted: every buy has
\* quantity > 0 and every sell has quantity < 0.
C3_NoEmptyOrders ==
    \A k \in 1..Len(decided) :
        /\ decided[k].side = "buy" => decided[k].order.quantity > 0
        /\ decided[k].side = "sell" => decided[k].order.quantity < 0

----------------------------------------------------------------------------
(* C4 *)

ColdStart ==
    /\ HasProduct("STARFRUIT")
    /\ state.traderData = <<>>
    /\ DepthOf("STARFRUIT").buy_orders # <<>>
    /\ DepthOf("STARFRUIT").sell_orders # <<>>

\* C4: on an empty prior-state string and a book with both sides, starfruit
\* starts from empty ledgers and history, does not raise, and returns a state
\* blob.
C4_ColdStartCompletes ==
    ColdStart =>
        /\ pc = "sf_best" => data = EmptyStarfruitData
        /\ Done("STARFRUIT") =>
              /\ ~Raised("STARFRUIT")
              /\ DictHas(result, "STARFRUIT")
              /\ traderData # <<>>

----------------------------------------------------------------------------
(* C5 *)

\* C5: whatever instruments the snapshot holds, Trader.run returns a triple
\* with conversions = 0 and a state string.
C5_RunReturnsTriple ==
    TickOver =>
        /\ pc = "returned"
        /\ ret # <<>>
        /\ ret[1].conversions = 0
        /\ traderData # <<>>
        /\ ret[1].traderData = traderData[1]

----------------------------------------------------------------------------
(* C6 *)

FirstIsLowest(side) == side # <<>> /\ side[1][1] = LowestPrice(side)
FirstIsHighest(side) == side # <<>> /\ side[1][1] = HighestPrice(side)

\* C6: in amethyst an empty sell side gives no buy and an empty buy side gives
\* no sell, without raising, and the other side is evaluated as usual: its
\* order is emitted exactly when its best level, listed first, crosses.
C6_EmptySideSkipped ==
    Done("AMETHYSTS") =>
        LET depth == DepthOf("AMETHYSTS")
            pos == PositionOf(state, "AMETHYSTS")
            buys == SelectSeq(DecidedFor("AMETHYSTS"), LAMBDA dc : dc.side = "buy")
            sells == SelectSeq(DecidedFor("AMETHYSTS"), LAMBDA dc : dc.side = "sell")
        IN  /\ depth.sell_orders = <<>> \/ depth.buy_orders = <<>> =>
                  ~Raised("AMETHYSTS") /\ DictHas(result, "AMETHYSTS")
            /\ depth.sell_orders = <<>> =>
                  /\ buys = <<>>
                  /\ FirstIsHighest(depth.buy_orders) =>
                        DictGet(result, "AMETHYSTS") = StaticBandSell(depth, pos)
            /\ depth.buy_orders = <<>> =>
                  /\ sells = <<>>
                  /\ FirstIsLowest(depth.sell_orders) =>
                        DictGet(result, "AMETHYSTS") = StaticBandBuy(depth, pos)

\* amethyst ran on a book with no asks and a crossing bid, and sold.
C6_Witness ==
    /\ Done("AMETHYSTS")
    /\ DepthOf("AMETHYSTS").sell_orders = <<>>
    /\ DepthOf("AMETHYSTS").buy_orders # <<>>
    /\ Len(DictGet(result, "AMETHYSTS")) = 1
    /\ DictGet(result, "AMETHYSTS")[1].quantity < 0

----------------------------------------------------------------------------
(* C7 *)

SideMissing ==
    /\ HasProduct("STARFRUIT")
    /\ \/ DepthOf("STARFRUIT").buy_orders = <<>>
       \/ DepthOf("STARFRUIT").sell_orders = <<>>

\* C7: when the STARFRUIT book has no bids or no asks, starfruit raises
\* nothing, emits no order against the missing side, and still returns its
\* orders and a state blob.
C7_MissingSideSkipped ==
    SideMissing /\ Done("STARFRUIT") =>
        /\ ~Raised("STARFRUIT")
        /\ DictHas(result, "STARFRUIT")
        /\ traderData # <<>>
        /\ DepthOf("STARFRUIT").sell_orders = <<>> =>
              \A k \in 1..Len(DecidedFor("STARFRUIT")) :
                  DecidedFor("STARFRUIT")[k].side # "buy"
        /\ DepthOf("STARFRUIT").buy_orders = <<>> =>
              \A k \in 1..Len(DecidedFor("STARFRUIT")) :
                  DecidedFor("STARFRUIT")[k].side # "sell"

----------------------------------------------------------------------------
(* C8 *)

\* The prior state holds a single long lot, and the best (highest) bid rests
\* at least the lot's quantity.
SingleLongLot ==
    /\ HasProduct("STARFRUIT")
    /\ DepthOf("STARFRUIT").sell_orders # <<>>
    /\ DepthOf("STARFRUIT").buy_orders # <<>>
    /\ Len(Loaded.long_at) = 1
    /\ Loaded.short_at = <<>>
    /\ QtyAt(DepthOf("STARFRUIT").buy_orders,
             HighestPrice(DepthOf("STARFRUIT").buy_orders)) >= Loaded.long_at[1][2]

\* C8: with a single long lot (p, k) and best bid b of depth >= k, starfruit
\* emits exactly one exit sell of k at b and returns a state without the lot
\* when b - p >= min_profit, and emits no exit and leaves the lot as it was
\* when 0 < b - p < min_profit.
C8_LongLotExit ==
    SingleLongLot /\ Done("STARFRUIT") =>
        LET p == Loaded.long_at[1][1].v
            k == Loaded.long_at[1][2]
            b == HighestPrice(DepthOf("STARFRUIT").buy_orders)
            exits == DecidedBy({"long_exit"})
        IN  /\ b - p >= min_profit =>
                  /\ ~Raised("STARFRUIT")
                  /\ Len(exits) = 1
                  /\ exits[1].order = Order("STARFRUIT", b, -k)
                  /\ traderData # <<>>
                  /\ LotQty(Decode(traderData[1]).long_at, p) = <<>>
            /\ (0 < b - p /\ b - p < min_profit) =>
                  /\ ~Raised("STARFRUIT")
                  /\ exits = <<>>
                  /\ traderData # <<>>
                  /\ LotQty(Decode(traderData[1]).long_at, p) = <<k>>

----------------------------------------------------------------------------
(* C9 *)

\* The lots of a ledger that differ between two of its values.
ChangedLots(before, after) ==
    {k \in DictKeys(before) \cup DictKeys(after) :
        \/ DictHas(before, k) # DictHas(after, k)
        \/ DictHas(before, k) /\ DictHas(after, k) /\ DictGet(before, k) # DictGet(after, k)}

\* The exit matching of this tick is over and the entry rule has not acted:
\* both exits went through, or one of them raised.
ExitsOver == pc = "sf_sell" \/ (Raised("STARFRUIT") /\ exc \in {"KeyError", "TypeError"})

\* C9: in a tick, exit matching emits at most one sell for the long ledger and
\* at most one buy for the short ledger, and changes at most one lot of each
\* ledger.
C9_OneExitPerSide ==
    /\ Len(DecidedBy({"long_exit"})) <= 1
    /\ Len(DecidedBy({"short_exit"})) <= 1
    /\ pc = "sf_short" \/ ExitsOver =>
          /\ Cardinality(ChangedLots(Loaded.long_at, data.long_at)) <= 1
          /\ Cardinality(ChangedLots(Loaded.short_at, data.short_at)) <= 1

\* Exit matching ran on a ledger with two lots that both qualify, against the
\* best level and against the level the loop looks at first, in a two-level
\* book: two long lots, or two short lots.
C9_Witness ==
    /\ HasProduct("STARFRUIT")
    /\ ExitsOver
    /\ Len(DepthOf("STARFRUIT").sell_orders) = 2
    /\ Len(DepthOf("STARFRUIT").buy_orders) = 2
    /\ Len(Loaded.long_at) = 2
    /\ \A j \in 1..2 :
          /\ HighestPrice(DepthOf("STARFRUIT").buy_orders) - Loaded.long_at[j][1].v >= min_profit
          /\ HighestPrice(DepthOf("STARFRUIT").sell_orders) - Loaded.long_at[j][1].v >= min_profit

\* Exit matching ran through both blocks on a ledger with two short lots that
\* both qualify against every level of a two-level book.
C9_WitnessShort ==
    /\ HasProduct("STARFRUIT")
    /\ pc = "sf_sell"
    /\ Len(DepthOf("STARFRUIT").sell_orders) = 2
    /\ Len(DepthOf("STARFRUIT").buy_orders) = 2
    /\ Len(Loaded.short_at) = 2
    /\ \A j \in 1..2 :
          /\ Loaded.short_at[j][1].v - HighestPrice(DepthOf("STARFRUIT").sell_orders) >= min_profit
          /\ Loaded.short_at[j][1].v - HighestPrice(DepthOf("STARFRUIT").buy_orders) >= min_profit

----------------------------------------------------------------------------
(* C10 *)

\* The counts of positive and of non-positive successive differences.
Up(h) == Cardinality({j \in 1..(Len(h) - 1) : h[j + 1] - h[j] > 0})
Down(h) == Cardinality({j \in 1..(Len(h) - 1) : h[j + 1] - h[j] <= 0})

EntryOver == pc = "sf_update" \/ Done("STARFRUIT")

\* C10: the entry rule emits at most one entry order in a tick, a buy only
\* when up > down and a sell only when down > up, and on a tie none, with no
\* new lot recorded.
C10_EntryExclusive ==
    HasProduct("STARFRUIT") /\ EntryOver =>
        LET entries == DecidedBy({"entry"})
            asks == Loaded.last_ask_prices
            bids == Loaded.last_bid_prices
        IN  /\ Len(entries) <= 1
            /\ \A k \in 1..Len(entries) :
                  /\ entries[k].side = "buy" => Up(asks) > Down(asks) \/ Up(bids) > Down(bids)
                  /\ entries[k].side = "sell" => Down(asks) > Up(asks) \/ Down(bids) > Up(bids)
            /\ (Up(asks) = Down(asks) /\ Up(bids) = Down(bids)) =>
                  /\ entries = <<>>
                  /\ pc = "sf_update" =>
                        data.long_at = Loaded.long_at /\ data.short_at = Loaded.short_at

----------------------------------------------------------------------------
(* C11 *)

\* A two-sided STARFRUIT book and a prior state without lots.
NoOpenLots ==
    /\ HasProduct("STARFRUIT")
    /\ DepthOf("STARFRUIT").sell_orders # <<>>
    /\ DepthOf("STARFRUIT").buy_orders # <<>>
    /\ Loaded.long_at = <<>>
    /\ Loaded.short_at = <<>>

Bullish == Up(Loaded.last_ask_prices) > Down(Loaded.last_ask_prices)
              /\ Up(Loaded.last_bid_prices) > Down(Loaded.last_bid_prices)
Bearish == Down(Loaded.last_ask_prices) > Up(Loaded.last_ask_prices)
              /\ Down(Loaded.last_bid_prices) > Up(Loaded.last_bid_prices)

\* C11: with no open lots and a history whose positive differences outnumber
\* the others, starfruit emits exactly one buy at the best (lowest) ask, sized
\* min(ask depth, 20 - position), and returns a state with a new long lot of
\* that quantity at that price; with the non-positive differences in the
\* majority it emits one sell at the best (highest) bid, sized
\* min(bid depth, position + 20), and returns a short lot at that bid.
C11_MomentumEntry ==
    NoOpenLots /\ Done("STARFRUIT") =>
        LET depth == DepthOf("STARFRUIT")
            pos == PositionOf(state, "STARFRUIT")
            a == LowestPrice(depth.sell_orders)
            b == HighestPrice(depth.buy_orders)
            amt_buy == Min(-QtyAt(depth.sell_orders, a), position_limit - pos)
            amt_sell == Min(QtyAt(depth.buy_orders, b), pos + position_limit)
            emitted == DecidedFor("STARFRUIT")
        IN  /\ Bullish /\ amt_buy > 0 =>
                  /\ ~Raised("STARFRUIT")
                  /\ Len(emitted) = 1
                  /\ emitted[1].order = Order("STARFRUIT", a, amt_buy)
                  /\ traderData # <<>>
                  /\ LotQty(Decode(traderData[1]).long_at, a) = <<amt_buy>>
            /\ Bearish /\ amt_sell > 0 =>
                  /\ ~Raised("STARFRUIT")
                  /\ Len(emitted) = 1
                  /\ emitted[1].order = Order("STARFRUIT", b, -amt_sell)
                  /\ traderData # <<>>
                  /\ LotQty(Decode(traderData[1]).short_at, b) = <<amt_sell>>

----------------------------------------------------------------------------
(* C12 *)

\* The StarfruitData objects a strategy holds before it encodes them: ledgers
\* keyed by int price, as lines 296 and 305 key them.
StarfruitDatas ==
    {StarfruitData(h[1], h[2], l[1], l[2]) : h \in Histories, l \in Ledgers}

\* A strategy holds a state object and is about to return it.
InitCodec ==
    /\ pc = "built"
    /\ data \in StarfruitDatas
    /\ state = TradingState(<<>>, <<>>, <<>>)
    /\ i = 1
    /\ result = <<>>
    /\ traderData = <<>>
    /\ ret = <<>>
    /\ exc = "none"
    /\ orders = <<>>
    /\ position = 0
    /\ best = NoBest
    /\ decided = <<>>
    /\ logger_logs = <<>>
    /\ sink = <<>>

\* line 309: return orders, data.to_str()
CodecEncode ==
    /\ pc = "built"
    /\ traderData' = <<Encode(data)>>
    /\ pc' = "encoded"
    /\ UNCHANGED <<state, i, result, ret, exc, orders, position, data, best,
                   decided, logger_logs, sink>>

\* lines 233-235 of the next tick: the host hands the string back and it is
\* decoded
CodecDecode ==
    /\ pc = "encoded"
    /\ state' = TradingState(<<>>, <<>>, traderData[1])
    /\ data' = LoadData(traderData[1])
    /\ pc' = "decoded"
    /\ UNCHANGED <<i, result, traderData, ret, exc, orders, position, best,
                   decided, logger_logs, sink>>

NextCodec ==
    \/ CodecEncode
    \/ CodecDecode

SpecCodec == InitCodec /\ [][NextCodec]_vars

\* C12: decoding the encoding of a state object gives back an equal object:
\* the same histories, and ledgers with the same int keys and quantities, so
\* that a lookup by int price finds the same lot in both.
C12_RoundTrip ==
    pc = "encoded" =>
        LET back == LoadData(traderData[1]) IN
            /\ back = data
            /\ \A p \in LotPrices :
                  /\ DictHas(back.long_at, IntKey(p)) = DictHas(data.long_at, IntKey(p))
                  /\ DictHas(back.short_at, IntKey(p)) = DictHas(data.short_at, IntKey(p))

----------------------------------------------------------------------------
(* C13 *)

\* C13: whatever the order in which the levels of a side are stored, the price
\* starfruit takes as best ask is the lowest ask and as best bid the highest
\* bid, and amethyst prices its buy at the lowest ask and its sell at the
\* highest bid, sizing each from the quantity resting at that price.
C13_BestIsExtreme ==
    /\ HasProduct("STARFRUIT") /\ best # NoBest =>
          /\ best.ask = LowestPrice(DepthOf("STARFRUIT").sell_orders)
          /\ best.bid = HighestPrice(DepthOf("STARFRUIT").buy_orders)
    /\ \A k \in 1..Len(DecidedBy({"band"})) :
          LET dc == DecidedBy({"band"})[k]
              depth == DepthOf("AMETHYSTS")
          IN  /\ dc.side = "buy" =>
                    /\ dc.order.price = LowestPrice(depth.sell_orders)
                    /\ dc.order.quantity =
                          Min(-QtyAt(depth.sell_orders, dc.order.price),
                              position_limit - dc.position)
              /\ dc.side = "sell" =>
                    /\ dc.order.price = HighestPrice(depth.buy_orders)
                    /\ -dc.order.quantity =
                          Min(QtyAt(depth.buy_orders, dc.order.price),
                              dc.position + position_limit)

----------------------------------------------------------------------------
(* C14 *)

\* line 238, "# max_loss = 3": the stop-loss distance, which the source keeps
\* only in a comment
max_loss == 3

\* The lot left under price p after amt of a lot of k was closed.
Remainder(k, amt) == IF k - amt = 0 THEN <<>> ELSE <<k - amt>>

\* C14: a long lot (p, k) with best bid b and p - b >= max_loss is sold in the
\* tick, min(k, quantity at b) at b, and reduced or removed in the returned
\* state; a short lot (p, k) with best ask a and a - p >= max_loss is bought
\* back, min(k, quantity at a) at a.
C14_StopLossExit ==
    /\ HasProduct("STARFRUIT") /\ Done("STARFRUIT")
    /\ DepthOf("STARFRUIT").sell_orders # <<>>
    /\ DepthOf("STARFRUIT").buy_orders # <<>>
    =>
        LET depth == DepthOf("STARFRUIT")
            a == LowestPrice(depth.sell_orders)
            b == HighestPrice(depth.buy_orders)
        IN  /\ (/\ Len(Loaded.long_at) = 1
                /\ Loaded.short_at = <<>>
                /\ Loaded.long_at[1][1].v - b >= max_loss) =>
                  LET p == Loaded.long_at[1][1].v
                      k == Loaded.long_at[1][2]
                      amt == Min(k, QtyAt(depth.buy_orders, b))
                  IN  /\ ~Raised("STARFRUIT")
                      /\ Len(DecidedBy({"long_exit"})) = 1
                      /\ DecidedBy({"long_exit"})[1].order = Order("STARFRUIT", b, -amt)
                      /\ traderData # <<>>
                      /\ LotQty(Decode(traderData[1]).long_at, p) = Remainder(k, amt)
            /\ (/\ Len(Loaded.short_at) = 1
                /\ Loaded.long_at = <<>>
                /\ a - Loaded.short_at[1][1].v >= max_loss) =>
                  LET p == Loaded.short_at[1][1].v
                      k == Loaded.short_at[1][2]
                      amt == Min(k, -QtyAt(depth.sell_orders, a))
                  IN  /\ ~Raised("STARFRUIT")
                      /\ Len(DecidedBy({"short_exit"})) = 1
                      /\ DecidedBy({"short_exit"})[1].order = Order("STARFRUIT", a, amt)
                      /\ traderData # <<>>
                      /\ LotQty(Decode(traderData[1]).short_at, p) = Remainder(k, amt)

----------------------------------------------------------------------------
(* C15 *)

\* The prior state holds a single short lot and no long lot, and the book has
\* both sides.
SingleShortLot ==
    /\ HasProduct("STARFRUIT")
    /\ DepthOf("STARFRUIT").sell_orders # <<>>
    /\ DepthOf("STARFRUIT").buy_orders # <<>>
    /\ Len(Loaded.short_at) = 1
    /\ Loaded.long_at = <<>>

\* C15: with a short lot (p, k) and best ask a such that p - a >= min_profit,
\* exit matching emits one buy of min(k, quantity at a) at a, reduces or
\* removes the lot in the short ledger and leaves the long ledger unchanged.
C15_ShortLotExit ==
    SingleShortLot /\ pc = "sf_sell" =>
        LET depth == DepthOf("STARFRUIT")
            a == LowestPrice(depth.sell_orders)
            p == Loaded.short_at[1][1].v
            k == Loaded.short_at[1][2]
            amt == Min(k, -QtyAt(depth.sell_orders, a))
        IN  p - a >= min_profit =>
                /\ Len(DecidedBy({"short_exit"})) = 1
                /\ DecidedBy({"short_exit"})[1].order = Order("STARFRUIT", a, amt)
                /\ LotQty(data.short_at, p) = Remainder(k, amt)
                /\ data.long_at = Loaded.long_at

----------------------------------------------------------------------------
(* C16 *)

LotsPositive(ledger) == \A j \in 1..Len(ledger) : ledger[j][2] > 0

\* C16: every lot of the state starfruit returns has quantity > 0, in the
\* long and in the short ledger: the object it hands to the encoder at the end
\* of the tick holds no lot of quantity <= 0, and an entry whose clamped amount
\* is <= 0 has recorded none.
C16_LotsPositive ==
    /\ traderData # <<>> =>
          /\ LotsPositive(Decode(traderData[1]).long_at)
          /\ LotsPositive(Decode(traderData[1]).short_at)
    /\ HasProduct("STARFRUIT") /\ pc = "sf_update" =>
          /\ LotsPositive(data.long_at)
          /\ LotsPositive(data.short_at)

----------------------------------------------------------------------------
(* C17 *)

\* C17: when an entry trades at a price at which the ledger of its side
\* already holds a lot, the lot the tick hands on at that price has the old
\* quantity plus the entry's amount.
C17_EntryAccumulates ==
    HasProduct("STARFRUIT") /\ pc = "sf_update" =>
        \A k \in 1..Len(DecidedBy({"entry"})) :
            LET dc == DecidedBy({"entry"})[k]
                p == dc.order.price
                next == Encode(data)[1]
            IN  /\ dc.side = "sell" /\ LotQty(Loaded.short_at, p) # <<>> =>
                      LotQty(next.short_at, p) =
                          <<LotQty(Loaded.short_at, p)[1] - dc.order.quantity>>
                /\ dc.side = "buy" /\ LotQty(Loaded.long_at, p) # <<>> =>
                      LotQty(next.long_at, p) =
                          <<LotQty(Loaded.long_at, p)[1] + dc.order.quantity>>

----------------------------------------------------------------------------
(* C18 *)

\* The most recent cap entries of h, in order.
Window(h, cap) ==
    IF Len(h) <= cap THEN h ELSE SubSeq(h, Len(h) - cap + 1, Len(h))

\* starfruit came to its call of update_last_prices, line 307.
UpdateOver ==
    /\ HasProduct("STARFRUIT")
    /\ \/ Raised("STARFRUIT") /\ exc = "AttributeError"
       \/ pc \in {"loop", "returned"} /\ IndexOf("STARFRUIT") < i
       \/ pc = "raised" /\ IndexOf("STARFRUIT") < i

\* C18: a call of StarfruitData.update_last_prices completes and leaves each
\* history as its own previous contents followed by the new price (the bid
\* history by the bid, the ask history by the ask), cut to the most recent
\* PRICE_AMT entries.
C18_HistoryWindow ==
    UpdateOver =>
        /\ ~(Raised("STARFRUIT") /\ exc = "AttributeError")
        /\ traderData # <<>>
        /\ Decode(traderData[1]).last_bid_prices =
              Window(Append(Loaded.last_bid_prices, best.bid), PRICE_AMT)
        /\ Decode(traderData[1]).last_ask_prices =
              Window(Append(Loaded.last_ask_prices, best.ask), PRICE_AMT)

----------------------------------------------------------------------------
(* C19 *)

\* The place of a rule in the tick: long exits, short exits, entry.
RuleRank(rule) ==
    CASE rule = "long_exit" -> 1
      [] rule = "short_exit" -> 2
      [] rule = "entry" -> 3
      [] OTHER -> 0

\* The signed quantities of the first n orders starfruit emitted.
Quantities(n) == [k \in 1..n |-> DecidedFor("STARFRUIT")[k].order.quantity]

\* starfruit is running or has raised.
InStarfruit ==
    \/ pc \in {"sf_best", "sf_long", "sf_short", "sf_sell", "sf_buy", "sf_update"}
    \/ Raised("STARFRUIT")

\* C19: in a tick of starfruit the orders come in the order long exits, short
\* exits, entry, all before the history update; each order is sized against
\* the tick-start position plus the signed quantities of the orders before
\* it, the local position is the tick-start position plus all of them, and for
\* every prefix of the emitted orders that sum stays within
\* [-position_limit, position_limit].
C19_TickOrder ==
    HasProduct("STARFRUIT") =>
        LET start == PositionOf(state, "STARFRUIT")
            emitted == DecidedFor("STARFRUIT")
        IN  /\ \A n \in 0..Len(emitted) :
                  /\ start + Sum(Quantities(n)) >= -position_limit
                  /\ start + Sum(Quantities(n)) <= position_limit
            /\ \A k \in 1..Len(emitted) :
                  /\ emitted[k].position = start + Sum(Quantities(k - 1))
                  /\ \A j \in 1..k : RuleRank(emitted[j].rule) <= RuleRank(emitted[k].rule)
            /\ InStarfruit => position = start + Sum(Quantities(Len(emitted)))
            /\ pc \in {"sf_best", "sf_long", "sf_short", "sf_sell", "sf_buy", "sf_update"} =>
                  data.last_ask_prices = Loaded.last_ask_prices
                      /\ data.last_bid_prices = Loaded.last_bid_prices

\* starfruit started from a position next to the limit, sold and then bought
\* against the adjusted position, and came to the history update.
C19_Witness ==
    /\ UpdateOver
    /\ PositionOf(state, "STARFRUIT") = position_limit - 1
    /\ Len(DecidedFor("STARFRUIT")) = 2
    /\ DecidedFor("STARFRUIT")[1].order.quantity < 0
    /\ DecidedFor("STARFRUIT")[2].order.quantity > 0
    /\ DecidedFor("STARFRUIT")[2].position < position_limit - 1

----------------------------------------------------------------------------
(* C20 *)

\* The host stops calling once the logger holds this many lines.
MaxLogs == 2

\* One-level books, no reported position, state strings without lots.
ThinSnapshots ==
    {TradingState(<<>>, <<>>, <<>>),
     TradingState(<<<<"ORCHIDS", Depth(<<>>, <<>>)>>>>, <<>>, <<>>)}
    \cup {TradingState(<<<<"AMETHYSTS", d>>>>, <<>>, <<>>) : d \in ThinAmethystDepths}
    \cup {TradingState(<<<<"STARFRUIT", d>>>>, <<>>, b) :
            d \in ThinStarfruitDepths, b \in ThinBlobs}
    \cup {TradingState(<<<<"AMETHYSTS", da>>, <<"STARFRUIT", ds>>>>, <<>>, b) :
            da \in ThinAmethystDepths, ds \in ThinStarfruitDepths, b \in ThinBlobs}
    \cup {TradingState(<<<<"STARFRUIT", ds>>, <<"AMETHYSTS", da>>>>, <<>>, b) :
            da \in ThinAmethystDepths, ds \in ThinStarfruitDepths, b \in ThinBlobs}

\* The host calls Trader.run again, after a call that returned or raised: the
\* locals of run are fresh, the module-level logger of line 92 is the same
\* object.
HostNextTick ==
    /\ pc \in {"idle", "raised", "returned"}
    /\ Len(logger_logs) < MaxLogs
    /\ \E s \in ThinSnapshots : state' = s
    /\ pc' = "loop"
    /\ i' = 1
    /\ result' = <<>>
    /\ traderData' = <<>>
    /\ ret' = <<>>
    /\ exc' = "none"
    /\ orders' = <<>>
    /\ position' = 0
    /\ data' = NoData
    /\ best' = NoBest
    /\ decided' = <<>>
    /\ UNCHANGED <<logger_logs, sink>>

NextTicks ==
    \/ HostNextTick
    \/ RunAmethyst
    \/ RunStarfruit
    \/ RunSkip
    \/ SfBest
    \/ SfLongExit
    \/ SfShortExit
    \/ SfEntrySell
    \/ SfEntryBuy
    \/ SfUpdate
    \/ RunFinish

SpecTicks == Init /\ [][NextTicks]_vars

\* Trader.run has been entered and has not yet looked at a product.
TickStart == pc = "loop" /\ i = 1

\* C20: over any sequence of calls of Trader.run, aborted ones included, the
\* logger's buffer is empty when a call starts, so that the lines of a tick's
\* record are the lines printed in that tick.
C20_LogsPerTick == TickStart => logger_logs = <<>>

============================================================================
